---- MODULE Spec2Model ----
(***************************************************************************)
(* A model of the network recipes of src/src/ANN.py (MLP_classifier,       *)
(* Autoencoder, MLP_regressor) and of the kernel-approximation example     *)
(* script examples/model_order_reduction/kernelApproximation.py.           *)
(*                                                                         *)
(* One recipe object is modelled at a time, as a record whose fields are   *)
(* the attributes the constructor has assigned (an attribute the           *)
(* constructor does not assign is absent from the record's DOMAIN).  The   *)
(* file system is the set of directories, the set of files and the         *)
(* process's working directory.  Dropout values are floats of the source,  *)
(* written here in tenths (5 is 0.5, 10 is 1.0).                           *)
(***************************************************************************)
EXTENDS Integers, Sequences, FiniteSets, TLC

VARIABLES obj, cwd, dirs, files, now, last, nsets, nfits, trainCount,
          kmodel, kdata, klast, kcmp

fsvars == <<cwd, dirs, files>>
annvars == <<obj, cwd, dirs, files, now, last, nsets, nfits, trainCount>>
kvars == <<kmodel, kdata, klast, kcmp>>
vars == <<obj, cwd, dirs, files, now, last, nsets, nfits, trainCount,
          kmodel, kdata, klast, kcmp>>

(* ------------------------------ bounds -------------------------------- *)
MaxSets == 1
MaxFits == 2
MaxMinute == 1
MaxN == 2

Rows == {2, 3}
Cols == {1, 2}
ClassInputs == {0, 1}
IntInputs == {-1, 0, 1, 2}
DropoutInputs == {-1, 0, 5, 10}
ActivationInputs == {"relu", "leaky_relu", "bogus"}

(* ------------------------- program constants -------------------------- *)
DefaultBatchSize == 64
DefaultEpochs == 1000
patience_ == 5

NoObj == [kind |-> "none"]

Has(o, attr) == attr \in DOMAIN o

NoLast(op) ==
  [op |-> op, outcome |-> "ok", exc |-> "", value |-> "", field |-> "",
   ival |-> 0, dir |-> <<>>, stack |-> <<>>, monitor |-> "", epochs |-> 0,
   vstall |-> 0, idx |-> <<>>]

(* ---------------------------- constructors ---------------------------- *)
ClassifierInit(X, Y, save) ==
  [kind |-> "MLP_classifier", X |-> X, Y |-> Y, activation |-> "relu",
   batch_size |-> DefaultBatchSize, n_epochs |-> DefaultEpochs, neurons |-> 2,
   layers |-> 1, dropout |-> 0, save_txt |-> save]

AutoencoderInit(X, save) ==
  [kind |-> "Autoencoder", X |-> X, neurons |-> 1, activation |-> "relu",
   batch_size |-> DefaultBatchSize, n_epochs |-> DefaultEpochs]

RegressorInit(X, Y, save) ==
  [kind |-> "MLP_regressor", X |-> X, Y |-> Y, neurons |-> 2, layers |-> 1,
   activation |-> "relu", batch_size |-> DefaultBatchSize,
   n_epochs |-> DefaultEpochs, dropout |-> 0, save_txt |-> save]

\* a constructor that compares the column counts instead of the row counts
ShapeMismatchColumns(X, Y) == X.cols # Y.cols

\* the check that ends MLP_classifier.__init__ and MLP_regressor.__init__
ShapeMismatch(X, Y) == X.rows # Y.rows

Shape(r, c) == [rows |-> r, cols |-> c]

ConstructXY(kind, X, Y, save) ==
  /\ obj = NoObj
  /\ IF ShapeMismatch(X, Y)
       THEN /\ obj' = NoObj
            /\ last' = [NoLast("construct") EXCEPT !.outcome = "raised",
                          !.exc = "Exception", !.field = kind,
                          !.ival = X.rows - Y.rows]
       ELSE /\ obj' = IF kind = "MLP_classifier" THEN ClassifierInit(X, Y, save)
                      ELSE RegressorInit(X, Y, save)
            /\ last' = [NoLast("construct") EXCEPT !.value = "object",
                          !.field = kind, !.ival = X.rows - Y.rows]
  /\ UNCHANGED <<cwd, dirs, files, now, nsets, nfits, trainCount>>
  /\ UNCHANGED kvars

\* a two-dimensional array: its shape and its rows
Matrix(data) == [rows |-> Len(data), cols |-> Len(data[1]), data |-> data]

\* the class of each of n observations
ClassIndices(n, c) == [i \in 1..n |-> (i + c) % 2]

\* the Y handed to MLP_classifier: one column of class indices, or one
\* column per class
ClassifierY(n, cols, c) ==
  Matrix([i \in 1..n |->
            IF cols = 1 THEN <<ClassIndices(n, c)[i]>>
            ELSE <<1 - ClassIndices(n, c)[i], ClassIndices(n, c)[i]>>])

MLP_classifier_new ==
  \E xr \in Rows, yr \in Rows, yc \in Cols, c \in ClassInputs, save \in BOOLEAN :
    ConstructXY("MLP_classifier", Shape(xr, 2), ClassifierY(yr, yc, c), save)

MLP_regressor_new ==
  \E xr \in Rows, yr \in Rows, save \in BOOLEAN :
    ConstructXY("MLP_regressor", Shape(xr, 2), Shape(yr, 1), save)

Autoencoder_new ==
  \E xr \in Rows, xc \in Cols, save \in BOOLEAN :
    /\ obj = NoObj
    /\ obj' = AutoencoderInit(Shape(xr, xc), save)
    /\ last' = [NoLast("construct") EXCEPT !.value = "object",
                  !.field = "Autoencoder"]
    /\ UNCHANGED <<cwd, dirs, files, now, nsets, nfits, trainCount>>
    /\ UNCHANGED kvars

(* ------------------------------ setters ------------------------------- *)
\* the condition under which a setter raises, tested on the value the
\* attribute holds after the assignment
NeuronsRejected(o) ==
  \/ o.neurons <= 0
  \/ o.kind = "Autoencoder" /\ o.neurons >= o.X.cols
LayersRejected(o) == o.layers <= 0
\* a batch-size test that lets zero through
BatchSizeRejectedBelowZero(o) == o.batch_size < 0
BatchSizeRejected(o) == o.batch_size <= 0
EpochsRejected(o) == o.n_epochs <= 0
DropoutRejected(o) == o.dropout < 0 \/ o.dropout >= 10

Rejected(attr, o) ==
  CASE attr = "neurons" -> NeuronsRejected(o)
    [] attr = "layers" -> LayersRejected(o)
    [] attr = "batch_size" -> BatchSizeRejected(o)
    [] attr = "n_epochs" -> EpochsRejected(o)
    [] attr = "dropout" -> DropoutRejected(o)

\* a setter of the source: the attribute is assigned first, tested after
Setter(attr, v) ==
  /\ obj # NoObj
  /\ nsets < MaxSets
  /\ nsets' = nsets + 1
  /\ LET o == [obj EXCEPT ![attr] = v] IN
       /\ obj' = o
       /\ last' = IF Rejected(attr, o)
                    THEN [NoLast("set") EXCEPT !.outcome = "raised",
                            !.exc = "Exception", !.field = attr, !.ival = v]
                    ELSE [NoLast("set") EXCEPT !.field = attr, !.ival = v]
  /\ UNCHANGED <<cwd, dirs, files, now, nfits, trainCount>>
  /\ UNCHANGED kvars

SetNeurons == \E v \in IntInputs : Setter("neurons", v)
SetLayers ==
  /\ obj.kind \in {"MLP_classifier", "MLP_regressor"}
  /\ \E v \in IntInputs : Setter("layers", v)
SetBatchSize == \E v \in IntInputs : Setter("batch_size", v)
SetEpochs == \E v \in IntInputs : Setter("n_epochs", v)
SetDropout ==
  /\ obj.kind \in {"MLP_classifier", "MLP_regressor"}
  /\ \E v \in DropoutInputs : Setter("dropout", v)

\* the activation setter stores a LeakyReLU layer object for 'leaky_relu'
StoredActivation(a) == IF a = "leaky_relu" THEN "LeakyReLU object" ELSE a

SetActivation ==
  \E a \in ActivationInputs :
    /\ obj # NoObj
    /\ nsets < MaxSets
    /\ nsets' = nsets + 1
    /\ obj' = [obj EXCEPT !.activation = StoredActivation(a)]
    /\ last' = [NoLast("set") EXCEPT !.field = "activation"]
    /\ UNCHANGED <<cwd, dirs, files, now, nfits, trainCount>>
    /\ UNCHANGED kvars

(* -------------------------------- fit --------------------------------- *)
File(name) == <<name, -1>>
LayerFile(name, h) == <<name, h>>

Dense(units) == [type |-> "Dense", arg |-> units]
Dropout(rate) == [type |-> "Dropout", arg |-> rate]

\* what a fit call leaves behind: how it ended and the file system after it
Run(outcome, exc, value, c, ds, fs, stack, monitor, epochs, trained) ==
  [outcome |-> outcome, exc |-> exc, value |-> value, cwd |-> c, dirs |-> ds,
   files |-> fs, stack |-> stack, monitor |-> monitor, epochs |-> epochs,
   trained |-> trained]

\* a set_environment that makes the directory where the process started
NewDirAtStart(prefix, t) == <<<<prefix, t>>>>

\* set_environment: the directory is named by a prefix and the minute, made
\* in the working directory and entered
NewDir(prefix, t) == Append(cwd, <<prefix, t>>)

\* write_recap_text concatenates the activation to a string
IsString(a) == a # "LeakyReLU object"

\* train_test_split(test_size=0.3) needs a row for each side
SplitFails(X) == X.rows < 2

\* the framework refuses a layer it cannot build
DenseRejected(o) == o.neurons <= 0 \/ o.activation = "bogus"
DropoutLayerRejected(o) == o.dropout < 0 \/ o.dropout >= 10

\* the epoch at which training ends: `stall` is the epoch at which the
\* monitored quantity has gone patience_ epochs without improving (0: never)
Stalls == {0, patience_ + 1}
TrainEpochs(n_epochs, stall) ==
  IF n_epochs <= 0 THEN 0
  ELSE IF stall # 0 /\ stall <= n_epochs THEN stall
  ELSE n_epochs

\* the monitored quantity of each recipe (set_hard_parameters)
ClassifierMonitor == "val_loss"
AutoencoderMonitor == "val_loss"
RegressorMonitor == "mean_squared_error"

MonitoredStall(monitor, vstall, tstall) ==
  IF monitor = "val_loss" THEN vstall ELSE tstall

RECURSIVE ClassifierHidden(_, _)
ClassifierHidden(o, counter) ==
  IF counter < o.layers
    THEN <<Dense(o.neurons)>>
         \o (IF o.dropout # 0 THEN <<Dropout(o.dropout)>> ELSE <<>>)
         \o ClassifierHidden(o, counter + 1)
    ELSE <<>>

ClassifierStack(o) ==
  <<Dense(o.neurons)>>
  \o (IF o.dropout # 0 THEN <<Dropout(o.dropout)>> ELSE <<>>)
  \o ClassifierHidden(o, 1)
  \o <<Dense(o.Y.cols)>>

\* the weight dump: layer counter_saver of the stack, for counter_saver < layers
RECURSIVE ClassifierDump(_, _, _, _, _)
ClassifierDump(stack, layers, counter_saver, d, fs) ==
  IF counter_saver < layers
    THEN IF stack[counter_saver + 1].type # "Dense"
           THEN [ok |-> FALSE, files |-> fs]
           ELSE ClassifierDump(stack, layers, counter_saver + 1, d,
                  fs \cup {<<d, LayerFile("Weights_HL", counter_saver)>>,
                           <<d, LayerFile("Biases_HL", counter_saver)>>})
    ELSE [ok |-> TRUE, files |-> fs]

\* the single column of an n-by-1 array
Column(Y) == [i \in 1..Y.rows |-> Y.data[i][1]]

RECURSIVE Max(_)
Max(idx) ==
  IF Len(idx) = 1 THEN idx[1]
  ELSE IF idx[1] >= Max(Tail(idx)) THEN idx[1] ELSE Max(Tail(idx))

\* np.zeros(shape, dtype): the second positional argument is the data type,
\* and an integer is not one
NpZeros(shape, dtype) ==
  IF dtype \in Int
    THEN [ok |-> FALSE, exc |-> "TypeError"]
    ELSE [ok |-> TRUE, value |-> [i \in 1..shape |-> 0]]

\* the array is one-dimensional when np.zeros has returned, so the first
\* labels[ii,jj] = 1 is out of its dimensions
idx_to_labels(idx) ==
  LET k == Max(idx) + 1
      n_observations == Len(idx)
      labels == NpZeros(n_observations, k)
  IN
  IF ~labels.ok THEN labels
  ELSE IF \E ii \in 0..(n_observations - 1), jj \in 0..(k - 1) : idx[ii + 1] = jj
    THEN [ok |-> FALSE, exc |-> "IndexError"]
  ELSE labels

\* the first statement of MLP_classifier.fit_network
Conversion(o) ==
  IF o.kind = "MLP_classifier" /\ o.Y.cols = 1
    THEN idx_to_labels(Column(o.Y))
    ELSE [ok |-> TRUE, value |-> <<>>]

\* the object after that statement: self.Y is assigned only if the call returned
AfterConversion(o) ==
  IF o.kind = "MLP_classifier" /\ o.Y.cols = 1 /\ Conversion(o).ok
    THEN [o EXCEPT !.Y = [rows |-> Len(Conversion(o).value), cols |-> 1,
                          data |-> [i \in 1..Len(Conversion(o).value) |->
                                      <<Conversion(o).value[i]>>]]]
    ELSE o

ClassifierRun(self, t, vstall, tstall) ==
  LET o == AfterConversion(self)
      d == NewDir("Train MLP class - ", t)
      ds == dirs \cup {d}
      f1 == files \cup {<<d, File("recap_training.txt")>>}
      stack == ClassifierStack(o)
      epochs == TrainEpochs(o.n_epochs,
                  MonitoredStall(ClassifierMonitor, vstall, tstall))
      f2 == IF epochs >= 1 THEN f1 \cup {<<d, File("best_weights.h5")>>} ELSE f1
      f3 == f2 \cup {<<d, File("accuracy_history.eps")>>,
                     <<d, File("loss_history.eps")>>}
      dump == IF o.save_txt THEN ClassifierDump(stack, o.layers, 0, d, f3)
              ELSE [ok |-> TRUE, files |-> f3]
      m == ClassifierMonitor
  IN
  IF ~Conversion(self).ok
    THEN Run("raised", Conversion(self).exc, "", cwd, dirs, files, <<>>, "", 0, FALSE)
  ELSE IF d \in dirs
    THEN Run("raised", "FileExistsError", "", cwd, dirs, files, <<>>, "", 0, FALSE)
  ELSE IF ~IsString(o.activation)
    THEN Run("raised", "TypeError", "", d, ds, f1, <<>>, "", 0, FALSE)
  ELSE IF SplitFails(o.X)
    THEN Run("raised", "ValueError", "", d, ds, f1, <<>>, "", 0, FALSE)
  ELSE IF DenseRejected(o) \/ (o.dropout # 0 /\ DropoutLayerRejected(o))
    THEN Run("raised", "ValueError", "", d, ds, f1, <<>>, "", 0, FALSE)
  ELSE IF o.batch_size <= 0
    THEN Run("raised", "ValueError", "", d, ds, f1, stack, m, 0, TRUE)
  ELSE IF epochs = 0
    THEN Run("raised", "KeyError", "", d, ds, f2, stack, m, epochs, TRUE)
  ELSE IF ~dump.ok
    THEN Run("raised", "IndexError", "", d, ds, dump.files, stack, m, epochs, TRUE)
  ELSE Run("returned", "", "predictions", d, ds, dump.files, stack, m, epochs, TRUE)

AutoencoderStack(o) == <<Dense(o.neurons), Dense(o.X.cols)>>

AutoencoderRun(o, t, vstall, tstall) ==
  LET d == NewDir("Train Autoencoder - ", t)
      ds == dirs \cup {d}
      f1 == files \cup {<<d, File("recap_training.txt")>>}
      stack == AutoencoderStack(o)
      epochs == TrainEpochs(o.n_epochs,
                  MonitoredStall(AutoencoderMonitor, vstall, tstall))
      f2 == f1 \cup {<<d, File("loss_history.eps")>>}
      \* path_ + name, with no separator: beside the directory, not in it
      f3 == f2 \cup {<<cwd, <<"AEweightsHL1.txt", t>>>>,
                     <<cwd, <<"AEbiasHL1.txt", t>>>>,
                     <<cwd, <<"Encoded_matrix.txt", t>>>>}
      m == AutoencoderMonitor
  IN
  IF d \in dirs
    THEN Run("raised", "FileExistsError", "", cwd, dirs, files, <<>>, "", 0, FALSE)
  ELSE IF ~IsString(o.activation)
    THEN Run("raised", "TypeError", "", d, ds, f1, <<>>, "", 0, FALSE)
  ELSE IF SplitFails(o.X)
    THEN Run("raised", "ValueError", "", d, ds, f1, <<>>, "", 0, FALSE)
  ELSE IF DenseRejected(o)
    THEN Run("raised", "ValueError", "", d, ds, f1, <<>>, "", 0, FALSE)
  ELSE IF o.batch_size <= 0
    THEN Run("raised", "ValueError", "", d, ds, f1, stack, m, 0, TRUE)
  ELSE IF epochs = 0
    THEN Run("raised", "KeyError", "", d, ds, f1, stack, m, epochs, TRUE)
  ELSE IF ~Has(o, "save_txt")
    THEN Run("raised", "AttributeError", "", d, ds, f2, stack, m, epochs, TRUE)
  ELSE IF o.save_txt
    THEN Run("returned", "", "None", d, ds, f3, stack, m, epochs, TRUE)
  ELSE Run("returned", "", "None", d, ds, f2, stack, m, epochs, TRUE)

\* the name Dropout is local to fit_network and bound only by the import
\* under `if self._dropout != 0`
DropoutBound(o) == o.dropout # 0

RECURSIVE RegressorHidden(_, _)
RegressorHidden(o, counter) ==
  IF counter < o.layers
    THEN <<Dense(o.neurons), Dropout(o.dropout)>> \o RegressorHidden(o, counter + 1)
    ELSE <<>>

RegressorStack(o) ==
  <<Dense(o.neurons)>>
  \o (IF o.dropout # 0 THEN <<Dropout(o.dropout)>> ELSE <<>>)
  \o RegressorHidden(o, 1)
  \o <<Dense(o.Y.cols)>>

RegressorRun(o, t, vstall, tstall) ==
  LET d == NewDir("Train MLP regressor - ", t)
      ds == dirs \cup {d}
      f1 == files \cup {<<d, File("recap_training.txt")>>}
      stack == RegressorStack(o)
      epochs == TrainEpochs(o.n_epochs,
                  MonitoredStall(RegressorMonitor, vstall, tstall))
      f2 == IF epochs >= 1 THEN f1 \cup {<<d, File("best_weights2c.h5")>>} ELSE f1
      f3 == f2 \cup {<<d, File("loss_history.eps")>>}
      m == RegressorMonitor
  IN
  IF d \in dirs
    THEN Run("raised", "FileExistsError", "", cwd, dirs, files, <<>>, "", 0, FALSE)
  ELSE IF ~IsString(o.activation)
    THEN Run("raised", "TypeError", "", d, ds, f1, <<>>, "", 0, FALSE)
  ELSE IF SplitFails(o.X)
    THEN Run("raised", "ValueError", "", d, ds, f1, <<>>, "", 0, FALSE)
  ELSE IF DenseRejected(o) \/ (o.dropout # 0 /\ DropoutLayerRejected(o))
    THEN Run("raised", "ValueError", "", d, ds, f1, <<>>, "", 0, FALSE)
  ELSE IF 1 < o.layers /\ ~DropoutBound(o)
    THEN Run("raised", "UnboundLocalError", "", d, ds, f1, <<>>, "", 0, FALSE)
  ELSE IF o.batch_size <= 0
    THEN Run("raised", "ValueError", "", d, ds, f1, stack, m, 0, TRUE)
  ELSE IF epochs = 0
    THEN Run("raised", "KeyError", "", d, ds, f2, stack, m, epochs, TRUE)
  ELSE IF o.save_txt /\ 0 < o.layers
    THEN Run("raised", "NameError", "", d, ds, f3, stack, m, epochs, TRUE)
  ELSE Run("returned", "", "None", d, ds, f3, stack, m, epochs, TRUE)

\* the minute at which a call may be made: the clock never runs backwards
CallTimes == {t \in now..(now + 1) : t <= MaxMinute}

Fit(kind, r, t, vstall) ==
  /\ obj.kind = kind
  /\ nfits < MaxFits
  /\ nfits' = nfits + 1
  /\ cwd' = r.cwd
  /\ dirs' = r.dirs
  /\ files' = r.files
  /\ trainCount' = IF r.trained THEN trainCount + 1 ELSE trainCount
  /\ last' = [NoLast("fit") EXCEPT !.outcome = r.outcome, !.exc = r.exc,
                !.value = r.value, !.field = kind,
                !.dir = IF r.cwd = cwd THEN <<>> ELSE r.cwd,
                !.stack = r.stack, !.monitor = r.monitor,
                !.epochs = r.epochs, !.vstall = vstall,
                !.idx = IF kind = "MLP_classifier" /\ obj.Y.cols = 1
                          THEN Column(obj.Y) ELSE <<>>]
  /\ now' = t
  /\ obj' = AfterConversion(obj)
  /\ UNCHANGED nsets
  /\ UNCHANGED kvars

MLP_classifier_fit_network ==
  \E t \in CallTimes, vstall \in Stalls, tstall \in Stalls :
    Fit("MLP_classifier", ClassifierRun(obj, t, vstall, tstall), t, vstall)

Autoencoder_fit ==
  \E t \in CallTimes, vstall \in Stalls, tstall \in Stalls :
    Fit("Autoencoder", AutoencoderRun(obj, t, vstall, tstall), t, vstall)

MLP_regressor_fit_network ==
  \E t \in CallTimes, vstall \in Stalls, tstall \in Stalls :
    Fit("MLP_regressor", RegressorRun(obj, t, vstall, tstall), t, vstall)

(* ------------------------ kernel approximation ------------------------ *)
\* The example script: load and scale the data, build the model from the
\* data and the settings, run one of the three operations, then compute the
\* exact kernel from the same data and compare.  The class itself
\* (OpenMORe.model_order_reduction.Kernel_approximation) is modelled from
\* the specification's description of it.
DataRows == 1..MaxN
PickInputs == 0..(MaxN + 1)
RankInputs == 0..(MaxN + 1)
SigmaInputs == {0, 1}
MatricesInputs == {1, 2}
KernelOps == {"Nystrom_standard", "Nystrom_ensemble", "QRdecomposition"}

\* readCSV, X[:2000,:], center_scale: the scaled matrix, one entry per row
Script_load ==
  /\ kdata = <<>>
  /\ \E n \in DataRows : kdata' = [i \in 1..n |-> i]
  /\ UNCHANGED <<kmodel, klast, kcmp>>
  /\ UNCHANGED annvars

\* mor.Kernel_approximation(X_tilde, settings): holds the matrix and the settings
Kernel_approximation(X, settings) ==
  [built |-> TRUE, X |-> X, number_to_pick |-> settings.number_to_pick,
   sigma |-> settings.sigma, rank |-> settings.rank,
   number_of_matrices |-> settings.number_of_matrices]

Script_build ==
  /\ kdata # <<>>
  /\ ~kmodel.built
  /\ \E p \in PickInputs, sg \in SigmaInputs, r \in RankInputs, nm \in MatricesInputs :
       kmodel' = Kernel_approximation(kdata,
                   [number_to_pick |-> p, sigma |-> sg, rank |-> r,
                    number_of_matrices |-> nm])
  /\ UNCHANGED <<kdata, klast, kcmp>>
  /\ UNCHANGED annvars

\* the settings the specification calls valid for an n-row matrix
ValidSettings(m, n) ==
  /\ m.number_to_pick >= 1 /\ m.number_to_pick <= n
  /\ m.rank >= 1 /\ m.rank <= m.number_to_pick
  /\ m.sigma > 0

\* the landmark draws an operation makes
Draws(op, m) == IF op = "Nystrom_ensemble" THEN m.number_of_matrices ELSE 1

\* an operation that returns the n-by-m cross-kernel block
ResultShapeCross(n, m) == <<n, m.number_to_pick>>

\* the shape of the matrix an operation returns for an n-row input
ResultShape(n, m) == <<n, n>>

\* the matrix the caller holds after an operation ran on it
DataAfter(X) == X

KResult(op, outcome, exc, shape, draws, before) ==
  [op |-> op, outcome |-> outcome, exc |-> exc, shape |-> shape,
   draws |-> draws, before |-> before, number_to_pick |-> kmodel.number_to_pick,
   valid |-> ValidSettings(kmodel, Len(kmodel.X))]

\* How an operation can end.  The reference does not validate that
\* number_to_pick fits the matrix: sampling then fails on an index.  The
\* other invalid settings are taken to be rejected before sampling.
KernelOutcomes(op, m) ==
  LET n == Len(m.X)
      rejected == KResult(op, "raised", "ConfigurationError", <<0, 0>>, 0, m.X)
      computed == KResult(op, "returned", "", ResultShape(n, m), Draws(op, m), m.X)
  IN
  IF m.number_to_pick > n
    THEN {KResult(op, "raised", "IndexError", <<0, 0>>, 1, m.X)}
  ELSE IF ValidSettings(m, n) THEN {computed}
  ELSE {rejected}

KernelOp(op) ==
  /\ kmodel.built
  /\ \E r \in KernelOutcomes(op, kmodel) :
       /\ klast' = r
       /\ kdata' = DataAfter(kdata)
  /\ kcmp' = "none"
  /\ UNCHANGED kmodel
  /\ UNCHANGED annvars

Nystrom_standard == KernelOp("Nystrom_standard")
Nystrom_ensemble == KernelOp("Nystrom_ensemble")
QRdecomposition == KernelOp("QRdecomposition")

\* rbf_kernel(X_tilde, gamma=1), then the norm of Kapprox - X_features
ExactShape(X) == <<Len(X), Len(X)>>

Script_compare ==
  /\ klast.op \in KernelOps
  /\ klast.outcome = "returned"
  /\ kcmp = "none"
  /\ kcmp' = IF klast.shape = ExactShape(kdata) THEN "error computed" ELSE "ValueError"
  /\ UNCHANGED <<kmodel, kdata, klast>>
  /\ UNCHANGED annvars

Init ==
  /\ obj = NoObj
  /\ cwd = <<>>
  /\ dirs = {<<>>}
  /\ files = {}
  /\ now = 0
  /\ last = NoLast("init")
  /\ nsets = 0
  /\ nfits = 0
  /\ trainCount = 0
  /\ kmodel = [built |-> FALSE]
  /\ kdata = <<>>
  /\ klast = [op |-> "none", outcome |-> "none", valid |-> TRUE]
  /\ kcmp = "none"

Next ==
  \/ MLP_classifier_new
  \/ MLP_regressor_new
  \/ Autoencoder_new
  \/ SetNeurons
  \/ SetLayers
  \/ SetBatchSize
  \/ SetEpochs
  \/ SetDropout
  \/ SetActivation
  \/ MLP_classifier_fit_network
  \/ Autoencoder_fit
  \/ MLP_regressor_fit_network

Spec == Init /\ [][Next]_vars

KernelNext ==
  \/ Script_load
  \/ Script_build
  \/ Nystrom_standard
  \/ Nystrom_ensemble
  \/ QRdecomposition
  \/ Script_compare

KernelSpec == Init /\ [][KernelNext]_vars

(* ------------------------------ claims -------------------------------- *)
OutOfRange(field, v) ==
  \/ field \in {"neurons", "layers", "batch_size", "n_epochs"} /\ v <= 0
  \/ field = "dropout" /\ (v < 0 \/ v >= 10)

InRange(o) ==
  /\ o.neurons > 0
  /\ o.batch_size > 0
  /\ o.n_epochs > 0
  /\ Has(o, "layers") => o.layers > 0
  /\ Has(o, "dropout") => (0 <= o.dropout /\ o.dropout < 10)

FilesIn(d) == {f[2] : f \in {g \in files : g[1] = d}}

\* C1: an out-of-range value assigned through a setter raises inside the
\* assignment, and the assignment creates no directory, leaves the working
\* directory alone and starts no training.
C1_SetterRejects ==
  [][(nsets' = nsets + 1 /\ OutOfRange(last'.field, last'.ival))
       => /\ last'.op = "set"
          /\ last'.outcome = "raised"
          /\ last'.exc = "Exception"
          /\ cwd' = cwd /\ dirs' = dirs /\ files' = files
          /\ trainCount' = trainCount /\ nfits' = nfits]_vars

C1_Witness ==
  /\ last.op = "set" /\ last.outcome = "raised"
  /\ last.field = "batch_size" /\ last.ival < 0
  /\ nfits >= 1 /\ dirs # {<<>>}

\* C2: in every reachable state the held hyperparameters are in range: a
\* rejected assignment leaves the previously held value in place.
C2_HeldInRange == obj # NoObj => InRange(obj)

\* C3: constructing an MLP_classifier or MLP_regressor from X and Y with
\* different numbers of rows raises in the constructor: no object exists on
\* which fit_network could be called, no directory is created and no
\* training starts.
C3_MismatchRaises ==
  (last.op = "construct" /\ last.ival # 0)
    => /\ last.outcome = "raised"
       /\ obj = NoObj
       /\ ~ENABLED (MLP_classifier_fit_network \/ MLP_regressor_fit_network)
       /\ dirs = {<<>>} /\ files = {} /\ cwd = <<>>
       /\ trainCount = 0

C3_Witness ==
  /\ last.op = "construct" /\ last.field = "MLP_regressor"
  /\ last.ival # 0 /\ last.outcome = "raised"

C5_DirectoryHoldsOutputs ==
  (last.op = "fit" /\ last.epochs >= 1)
    => /\ File("recap_training.txt") \in FilesIn(last.dir)
       /\ File("loss_history.eps") \in FilesIn(last.dir)
       /\ \/ File("best_weights.h5") \in FilesIn(last.dir)
          \/ File("best_weights2c.h5") \in FilesIn(last.dir)

\* C6: with save=True, fit_network of MLP_classifier and MLP_regressor
\* writes Weights_HL<h>.txt and Biases_HL<h>.txt for every hidden layer
\* h in 0..layers-1 and then returns, for every layers >= 1 and every
\* dropout in [0,1).
C6_WeightsDumped ==
  (/\ last.op = "fit" /\ last.epochs >= 1
   /\ obj.kind \in {"MLP_classifier", "MLP_regressor"}
   /\ obj.save_txt /\ InRange(obj))
    => /\ last.outcome = "returned"
       /\ \A h \in 0..(obj.layers - 1) :
            /\ LayerFile("Weights_HL", h) \in FilesIn(last.dir)
            /\ LayerFile("Biases_HL", h) \in FilesIn(last.dir)

\* the stack the recipes are meant to build
RECURSIVE HiddenBlocks(_, _, _)
HiddenBlocks(k, units, rate) ==
  IF k = 0 THEN <<>>
  ELSE <<Dense(units)>> \o (IF rate # 0 THEN <<Dropout(rate)>> ELSE <<>>)
       \o HiddenBlocks(k - 1, units, rate)

\* the fit call got as far as building the layer stack
StackReached ==
  /\ last.op = "fit"
  /\ obj.kind \in {"MLP_classifier", "MLP_regressor"}
  /\ last.dir # <<>>
  /\ obj.activation = "relu"

\* C7: for any layers >= 1, neurons >= 1 and dropout in [0,1), fit_network
\* of MLP_classifier and MLP_regressor builds `layers` hidden dense layers
\* of `neurons` units, each followed by a dropout layer exactly when
\* dropout # 0, then one output dense layer; building never fails.
C7_StackBuilt ==
  (StackReached /\ InRange(obj))
    => /\ last.exc # "UnboundLocalError"
       /\ last.stack = HiddenBlocks(obj.layers, obj.neurons, obj.dropout)
                         \o <<Dense(obj.Y.cols)>>

\* C8: in each recipe the early-stopping monitor is the validation loss with
\* patience 5: training ends after n_epochs epochs, or earlier exactly when
\* the validation loss has gone 5 consecutive epochs without improving.
C8_StopsOnValidationLoss ==
  (last.op = "fit" /\ last.epochs >= 1)
    => /\ last.monitor = "val_loss"
       /\ last.epochs <= obj.n_epochs
       /\ last.epochs < obj.n_epochs => last.epochs = last.vstall

\* C9: each kernel-approximation operation, on a model built from an n-row
\* matrix, returns an n-by-n matrix and leaves the matrix unchanged, so the
\* caller can compute the exact kernel from the same matrix afterwards.
C9_ReturnsSquareKeepsInput ==
  (klast.op \in KernelOps /\ klast.outcome = "returned")
    => /\ klast.shape = <<Len(klast.before), Len(klast.before)>>
       /\ kdata = klast.before
       /\ kcmp \in {"none", "error computed"}

C9_Witness ==
  /\ klast.op = "Nystrom_ensemble" /\ klast.outcome = "returned"
  /\ Len(kdata) = 2 /\ klast.draws = 2
  /\ kcmp = "error computed"

\* C10: with number_to_pick > n, rank > number_to_pick, or a non-positive
\* sigma, rank or number_to_pick, kernel approximation fails with a
\* configuration error before any landmark index is sampled, never with an
\* array-indexing error raised during sampling.
C10_InvalidSettingsFailFast ==
  (klast.op \in KernelOps /\ ~klast.valid)
    => /\ klast.outcome = "raised"
       /\ klast.exc = "ConfigurationError"
       /\ klast.draws = 0
IsPrefix(a, b) == Len(a) <= Len(b) /\ SubSeq(b, 1, Len(a)) = a

\* C11: a fit call enters the directory it creates and never leaves it,
\* whether it returns or fails after creating it, and what it wrote stays;
\* so the directory of each fit lies inside the directory of the fit before
\* it, and no fit fails because its directory exists, even when two fits
\* fall in the same minute.
C11_DirectoriesNest ==
  /\ \A d \in dirs : IsPrefix(d, cwd)
  /\ Cardinality(dirs) = Len(cwd) + 1
  /\ \A f \in files : f[1] \in dirs
  /\ last.op = "fit"
       => /\ last.exc # "FileExistsError"
          /\ last.dir # <<>>
               => /\ cwd = last.dir
                  /\ File("recap_training.txt") \in FilesIn(last.dir)

C11_Witness ==
  /\ nfits = 2 /\ Len(cwd) = 2
  /\ cwd[1] = cwd[2]
  /\ last.op = "fit" /\ last.outcome = "raised" /\ last.exc = "TypeError"
  /\ FilesIn(<<cwd[1]>>) # {}
\* C12: every activation the setter accepts can be used by a following fit:
\* after activation = 'leaky_relu' the fit writes the recap file and goes on
\* to train, and does not fail in write_recap_text once the directory has
\* been created and entered.
C12_AcceptedActivationFits ==
  (last.op = "fit" /\ last.dir # <<>> /\ InRange(obj))
    => /\ last.exc # "TypeError"
       /\ obj.activation = "LeakyReLU object" => last.epochs >= 1
\* the n-by-k matrix with k = max(index) + 1 whose entry (i, j) is 1
\* exactly when the index of observation i is j
OneHot(idx) ==
  Matrix([i \in 1..Len(idx) |->
            [j \in 1..(Max(idx) + 1) |-> IF idx[i] = j - 1 THEN 1 ELSE 0]])

\* C13: MLP_classifier.fit_network called with a single-column Y of class
\* indices first turns it, before any directory is created, into the n-by-k
\* one-hot matrix with k = max(index) + 1, and then goes on to create its
\* directory and train on that matrix.
C13_IndicesBecomeOneHot ==
  (last.op = "fit" /\ last.idx # <<>>)
    => /\ obj.Y = OneHot(last.idx)
       /\ last.dir # <<>>
====
